---- MODULE Spec2Model ----
(***************************************************************************)
(* A model of .github/scripts/update_my_skills.py: one pass that discovers *)
(* the repositories visible to a list of tokens, detects the skills of     *)
(* each repository, aggregates them, renders the "My Skills" section,      *)
(* splices it into README.md and commits and pushes the result.            *)
(*                                                                         *)
(* The script is sequential.  Each phase is a specification of its own     *)
(* over the variables of that phase; the variables of the other phases     *)
(* keep their initial value.                                               *)
(*   SpecDiscovery  list_all_repos and the per-repository API calls        *)
(*   SpecSplice     the rewrite of README.md between the two markers       *)
(*   SpecMain       the aggregation loop, add_skill and the rendering      *)
(*   SpecGit        the commit and push of the written README.md           *)
(*   SpecDatasci    detect_for_repo: the data-science import + usage scan  *)
(*   SpecScan       detect_for_repo: the keyword scans of the file contents *)
(*   SpecCandidates detect_for_repo: the selection of the files to fetch    *)
(*   SpecRun        one run from the README splice to the end of the script *)
(***************************************************************************)
EXTENDS Integers, Sequences, FiniteSets, TLC

VARIABLES
    \* ---- repository discovery (list_all_repos) ----
    pc,              \* position of the script in the discovery phase
    TOKENS,          \* the list of tokens read from the environment
    OWNER,           \* the OWNER environment value ("" when unset)
    forks,           \* upstream: the repositories that are forks
    upstream,        \* upstream: what the listing being paged holds
    tokIdx,          \* index in TOKENS of the token being listed
    page,            \* list_repos_for_token: page
    repos,           \* list_repos_for_token: repos (items of the pages so far)
    repo_set,        \* list_all_repos: repo_set
    repo_token_map,  \* module level: repo_token_map
    listed,          \* history: per token index, the repositories (well-formed,
                     \* not forks) its pages returned
    failedAt,        \* history: token indices one of whose page requests failed
    sortedRepos,     \* the value list_all_repos returned
    callIdx,         \* main loop: index in sortedRepos of the repository detected
    lastCall,        \* history: the last per-repository request sent
    \* ---- README splice ----
    readmeExists,    \* os.path.exists(README_PATH)
    readme,          \* the text of README.md (<<>> while it does not exist)
    passes,          \* history: one record per pass of the script over README.md
    \* ---- commit & push ----
    gitPc,           \* position of the script in the commit & push step
    readmeChanged,   \* the written README.md differs from the committed one
    otherDirty,      \* the working tree holds another uncommitted change
    GITHUB_TOKEN,    \* the GITHUB_TOKEN environment value ("" when unset)
    statusOut,       \* status.stdout.strip() ("unset" before git status ran)
    gitLog,          \* history: the git commands executed, in order
    exitStatus,      \* the exit status of the process (-1 while it runs)
    \* ---- aggregation and rendering ----
    mainPc,          \* position of the script from the main loop to the rendering
    aggregate,       \* module level: aggregate (category -> Counter)
    category_map,    \* module level: category_map (category -> Counter)
    sections,        \* module level: sections
    outcomes,        \* history: per repository of the loop, what detection did
    \* ---- detect_for_repo: data-science libraries ----
    dsPc,            \* "scan" before the data-science detection, "done" after it
    repoFiles,       \* upstream: the candidate files of the repository
    datasci,         \* detect_for_repo: detected["datasci"]
    \* ---- detect_for_repo: keyword scans ----
    scanPc,          \* "scan" before the keyword scans, "done" after them
    paths,           \* detect_for_repo: the blob paths of the tree
    fileContents,    \* upstream: the texts of the candidate files, in path order
    found,           \* detect_for_repo: dbs_found, fe_found, svc_found, dev_found
    detected,        \* detect_for_repo: detected, the four scanned categories
    \* ---- detect_for_repo: candidate selection ----
    candPc,          \* "select" before the selection loop, "done" after it
    blobPaths,       \* detect_for_repo: paths, the blob paths of the tree
    candidates_to_fetch

discVars == <<pc, TOKENS, OWNER, forks, upstream, tokIdx, page, repos, repo_set,
              repo_token_map, listed, failedAt, sortedRepos, callIdx, lastCall>>

spliceVars == <<readmeExists, readme, passes>>

gitVars == <<gitPc, readmeChanged, otherDirty, GITHUB_TOKEN, statusOut, gitLog,
             exitStatus>>

mainVars == <<mainPc, aggregate, category_map, sections, outcomes>>

\* The discovery variables the main loop does not read.
listingVars == <<pc, TOKENS, OWNER, forks, upstream, tokIdx, page, repos, repo_set,
                 repo_token_map, listed, failedAt, lastCall>>

dsVars == <<dsPc, repoFiles, datasci>>

scanVars == <<scanPc, paths, fileContents, found, detected>>

candVars == <<candPc, blobPaths, candidates_to_fetch>>

vars == <<discVars, spliceVars, gitVars, mainVars, dsVars, scanVars, candVars>>

----------------------------------------------------------------------------
(* Generic helpers *)

Range(s) == {s[i] : i \in 1..Len(s)}

Min(S) == CHOOSE x \in S : \A y \in S : x <= y

\* The sequences over S of length at most n without a repeated element.
RECURSIVE DistinctSeqs(_, _)
DistinctSeqs(S, n) ==
    IF n = 0 THEN {<<>>}
    ELSE LET shorter == DistinctSeqs(S, n - 1)
         IN  shorter \cup UNION {{Append(s, x) : x \in S \ Range(s)} : s \in shorter}

----------------------------------------------------------------------------
(* Repository discovery: list_repos_for_token, list_public_user_repos,      *)
(* list_all_repos, and the helpers that send a per-repository request.      *)

\* Bounds of the discovery model.
PerPage == 2        \* per_page of the listing loops, scaled down from 100
MaxListing == 3     \* longest upstream listing of one token

\* The repositories that exist upstream, in the order sorted() gives them.
RepoOrder == <<"o/a", "o/b", "p/c">>
RepoNames == Range(RepoOrder)

\* An entry of a listing that lacks "owner" or "name": reading it raises.
Malformed == "?"

NoToken == "None"
TokenLists == {<<>>, <<"t1">>, <<"t1", "t2">>, <<"t2", "t1">>, <<"t1", "t1">>}

Listings == DistinctSeqs(RepoNames \cup {Malformed}, MaxListing)

\* The outcome of requests.get + raise_for_status + json in api_get:
\* a body, an HTTP error status (requests.HTTPError), or any other exception
\* of the request (a timeout after REQUEST_TIMEOUT, a connection error).
Outcomes == {"ok", "http_error", "other_error"}

\* The page the listing endpoint returns for page p.
PageOf(listing, p) ==
    LET lo == (p - 1) * PerPage + 1
        hi == IF p * PerPage < Len(listing) THEN p * PerPage ELSE Len(listing)
    IN  IF lo > Len(listing) THEN <<>> ELSE SubSeq(listing, lo, hi)

\* The well-formed, non-fork repositories among a sequence of listing items.
Discoverable(items, fk) == {r \in Range(items) : r # Malformed /\ r \notin fk}

\* One iteration of the while loop of list_repos_for_token (the same loop is
\* list_public_user_repos): the resulting [repos, page, next], where next is
\* "loop" (another page), "break" (the loop ends, repos is returned) or
\* "raise" (the exception leaves the function).
PageStep(outcome, listing, rs, p) ==
    LET data == PageOf(listing, p) IN
    CASE outcome = "http_error"  -> [repos |-> rs, page |-> p, next |-> "break"]
      [] outcome = "other_error" -> [repos |-> rs, page |-> p, next |-> "raise"]
      [] OTHER ->
           IF data = <<>> THEN [repos |-> rs, page |-> p, next |-> "break"]
           ELSE IF Len(data) < PerPage
                THEN [repos |-> rs \o data, page |-> p, next |-> "break"]
                ELSE [repos |-> rs \o data, page |-> p + 1, next |-> "loop"]

\* The guard of the body of "for r in api_items": whether the item is recorded.
RecordsItem_Overwrite(item, fk, seen) ==
    item # Malformed /\ item \notin fk

RecordsItem(item, fk, seen) ==
    /\ item \notin fk          \* if r.get("fork"): continue
    /\ item # Malformed        \* except Exception: continue
    /\ item \notin seen        \* if repo_str not in repo_set

\* "for r in api_items" of list_all_repos for one token: [set, map] after it.
RECURSIVE AddItems(_, _, _, _, _)
AddItems(items, token, fk, set, map) ==
    IF items = <<>> THEN [set |-> set, map |-> map]
    ELSE LET r == Head(items) IN
         IF RecordsItem(r, fk, set)
         THEN AddItems(Tail(items), token, fk, set \cup {r},
                       [x \in DOMAIN map \cup {r} |->
                            IF x = r THEN token ELSE map[x]])
         ELSE AddItems(Tail(items), token, fk, set, map)

\* sorted(repo_set)
Sorted(set) == SelectSeq(RepoOrder, LAMBDA r : r \in set)

\* repo_token_map.get(repo_str)
TokenFor(repo) ==
    IF repo \in DOMAIN repo_token_map THEN repo_token_map[repo] ELSE NoToken

DiscInit ==
    /\ pc = "start"
    /\ TOKENS \in TokenLists
    /\ OWNER \in {"", "o"}
    /\ forks \in SUBSET {"o/b", "p/c"}
    /\ upstream = <<>>
    /\ tokIdx = 0
    /\ page = 1
    /\ repos = <<>>
    /\ repo_set = {}
    /\ repo_token_map = <<>>
    /\ listed = <<>>
    /\ failedAt = {}
    /\ sortedRepos = <<>>
    /\ callIdx = 0
    /\ lastCall = <<>>

\* The discovery variables while another phase is modelled.
ListingIdle ==
    /\ pc = "start" /\ OWNER = "" /\ forks = {}
    /\ upstream = <<>> /\ tokIdx = 0 /\ page = 1 /\ repos = <<>>
    /\ repo_set = {} /\ repo_token_map = <<>> /\ listed = <<>>
    /\ failedAt = {} /\ lastCall = <<>>

DiscRestIdle == ListingIdle /\ sortedRepos = <<>> /\ callIdx = 0

DiscIdle == TOKENS = <<>> /\ DiscRestIdle

\* list_all_repos, up to the first listing request.
BeginListing ==
    /\ pc = "start"
    /\ IF TOKENS # <<>>
       THEN /\ pc' = "paging"
            /\ tokIdx' = 1
            /\ upstream' \in Listings
            /\ UNCHANGED sortedRepos
       ELSE IF OWNER # ""
       THEN /\ pc' = "pub_paging"
            /\ upstream' \in Listings
            /\ UNCHANGED <<tokIdx, sortedRepos>>
       ELSE /\ pc' = "returned"
            /\ sortedRepos' = Sorted(repo_set)
            /\ UNCHANGED <<tokIdx, upstream>>
    /\ listed' = [i \in 1..Len(TOKENS) |-> {}]
    /\ UNCHANGED <<TOKENS, OWNER, forks, page, repos, repo_set, repo_token_map,
                   failedAt, callIdx, lastCall>>

\* One page request of list_repos_for_token(TOKENS[tokIdx]).
RequestPage ==
    /\ pc = "paging"
    /\ \E outcome \in Outcomes :
         LET s == PageStep(outcome, upstream, repos, page) IN
         /\ repos' = s.repos
         /\ page' = s.page
         /\ pc' = CASE s.next = "loop" -> "paging"
                    [] s.next = "break" -> "items"
                    [] OTHER -> "raised"
         /\ listed' = [listed EXCEPT ![tokIdx] = Discoverable(s.repos, forks)]
         /\ failedAt' = IF outcome = "ok" THEN failedAt ELSE failedAt \cup {tokIdx}
    /\ UNCHANGED <<TOKENS, OWNER, forks, upstream, tokIdx, repo_set,
                   repo_token_map, sortedRepos, callIdx, lastCall>>

\* The body of "for token in TOKENS" after list_repos_for_token returned, then
\* either the next token's listing or "return sorted(repo_set)".
RecordItems ==
    /\ pc = "items"
    /\ LET a == AddItems(repos, TOKENS[tokIdx], forks, repo_set, repo_token_map) IN
       /\ repo_set' = a.set
       /\ repo_token_map' = a.map
       /\ IF tokIdx < Len(TOKENS)
          THEN /\ tokIdx' = tokIdx + 1
               /\ pc' = "paging"
               /\ upstream' \in Listings
               /\ UNCHANGED sortedRepos
          ELSE /\ pc' = "returned"
               /\ sortedRepos' = Sorted(a.set)
               /\ upstream' = <<>>
               /\ UNCHANGED tokIdx
    /\ page' = 1
    /\ repos' = <<>>
    /\ UNCHANGED <<TOKENS, OWNER, forks, listed, failedAt, callIdx, lastCall>>

\* One page request of list_public_user_repos(OWNER).
RequestPublicPage ==
    /\ pc = "pub_paging"
    /\ \E outcome \in Outcomes :
         LET s == PageStep(outcome, upstream, repos, page) IN
         /\ repos' = s.repos
         /\ page' = s.page
         /\ pc' = CASE s.next = "loop" -> "pub_paging"
                    [] s.next = "break" -> "pub_items"
                    [] OTHER -> "raised"
    /\ UNCHANGED <<TOKENS, OWNER, forks, upstream, tokIdx, repo_set,
                   repo_token_map, listed, failedAt, sortedRepos, callIdx, lastCall>>

\* "for r in pubs" of list_all_repos and "return sorted(repo_set)".
RecordPublicItems ==
    /\ pc = "pub_items"
    /\ LET a == AddItems(repos, NoToken, forks, repo_set, repo_token_map) IN
       /\ repo_set' = a.set
       /\ repo_token_map' = a.map
       /\ sortedRepos' = Sorted(a.set)
    /\ pc' = "returned"
    /\ page' = 1
    /\ repos' = <<>>
    /\ upstream' = <<>>
    /\ UNCHANGED <<TOKENS, OWNER, forks, tokIdx, listed, failedAt,
                   callIdx, lastCall>>

\* "if not repos: exit(0)", else the main loop reaches its first repository.
EnterLoop ==
    /\ pc = "returned"
    /\ IF sortedRepos = <<>>
       THEN pc' = "exit0" /\ UNCHANGED callIdx
       ELSE pc' = "branch" /\ callIdx' = 1
    /\ UNCHANGED <<TOKENS, OWNER, forks, upstream, tokIdx, page, repos, repo_set,
                   repo_token_map, listed, failedAt, sortedRepos, lastCall>>

\* A per-repository request: the helper reads repo_token_map.get(repo_str) and
\* sends the request with mk_headers(token).
SendCall(from, kind, to) ==
    /\ pc = from
    /\ lastCall' = [kind |-> kind, repo |-> sortedRepos[callIdx],
                    token |-> TokenFor(sortedRepos[callIdx])]
    /\ pc' = to
    /\ UNCHANGED <<TOKENS, OWNER, forks, upstream, tokIdx, page, repos, repo_set,
                   repo_token_map, listed, failedAt, sortedRepos, callIdx>>

get_repo_default_branch == SendCall("branch", "default_branch", "tree")
get_tree == SendCall("tree", "tree", "languages")
get_languages == SendCall("languages", "languages", "content")
get_file_content == SendCall("content", "file_content", "next_repo")

\* The main loop moves to the next repository.
NextRepo ==
    /\ pc = "next_repo"
    /\ IF callIdx < Len(sortedRepos)
       THEN pc' = "branch" /\ callIdx' = callIdx + 1
       ELSE pc' = "detected" /\ UNCHANGED callIdx
    /\ UNCHANGED <<TOKENS, OWNER, forks, upstream, tokIdx, page, repos, repo_set,
                   repo_token_map, listed, failedAt, sortedRepos, lastCall>>



----------------------------------------------------------------------------
(* README splice: the rewrite of README.md with the new section.  A text is *)
(* a sequence of characters; the two markers are character sequences with   *)
(* a common first and last character, as "<!-- SKILLS-START -->" and        *)
(* "<!-- SKILLS-END -->" have a common prefix and suffix.                   *)

MaxChunks == 5      \* an initial README.md is made of at most so many chunks
MaxPasses == 2      \* passes of the script over the same README.md

START == <<"<", "S", ">">>
END == <<"<", "E", ">">>
NL == <<"\n">>

\* The pieces initial documents are made of.
Chunks == {START, END, <<"x">>, <<"<">>}

RECURSIVE DocsOf(_)
DocsOf(n) ==
    IF n = 0 THEN {<<>>}
    ELSE LET shorter == DocsOf(n - 1)
         IN  shorter \cup {d \o c : d \in shorter, c \in Chunks}

Docs == DocsOf(MaxChunks)

\* The sections the rendering of a pass can produce (they hold no marker).
Sections == {<<"a">>, <<"b", "b">>}

\* pat occurs in text at position i.
OccursAt(pat, text, i) ==
    /\ i >= 1
    /\ i + Len(pat) - 1 <= Len(text)
    /\ SubSeq(text, i, i + Len(pat) - 1) = pat

\* str.find: the first position from i on at which pat occurs, 0 if none.
RECURSIVE FindFrom(_, _, _)
FindFrom(pat, text, i) ==
    IF i + Len(pat) - 1 > Len(text) THEN 0
    ELSE IF OccursAt(pat, text, i) THEN i
    ELSE FindFrom(pat, text, i + 1)

\* "pat in text"
Contains(text, pat) == FindFrom(pat, text, 1) # 0

\* text.split(pat, 1): one part when pat does not occur, else two.
SplitOnce_Last(text, pat) ==
    LET occ == {i \in 1..Len(text) : OccursAt(pat, text, i)} IN
    IF occ = {} THEN <<text>>
    ELSE LET i == CHOOSE x \in occ : \A y \in occ : y <= x
         IN  <<SubSeq(text, 1, i - 1), SubSeq(text, i + Len(pat), Len(text))>>

SplitOnce(text, pat) ==
    LET i == FindFrom(pat, text, 1) IN
    IF i = 0 THEN <<text>>
    ELSE <<SubSeq(text, 1, i - 1), SubSeq(text, i + Len(pat), Len(text))>>

\* START + "\n" + new_section + "\n" + END
Block(new_section) == START \o NL \o new_section \o NL \o END

\* Lines 733-747: the file after the pass, and whether the pass raised before
\* the file was opened for writing.
WriteReadme_AppendOnError(exists, text, new_section) ==
    IF ~exists
    THEN [exists |-> TRUE, text |-> Block(new_section) \o NL, raised |-> FALSE]
    ELSE IF Contains(text, START) /\ Contains(text, END)
            /\ Len(SplitOnce(SplitOnce(text, START)[2], END)) = 2
    THEN LET parts == SplitOnce(text, START)
             tail == SplitOnce(parts[2], END)
         IN  [exists |-> TRUE, raised |-> FALSE,
              text |-> parts[1] \o Block(new_section) \o tail[2]]
    ELSE [exists |-> TRUE, raised |-> FALSE,
          text |-> text \o NL \o NL \o Block(new_section) \o NL]

WriteReadme(exists, text, new_section) ==
    IF ~exists
    THEN [exists |-> TRUE, text |-> Block(new_section) \o NL, raised |-> FALSE]
    ELSE IF Contains(text, START) /\ Contains(text, END)
    THEN LET parts == SplitOnce(text, START)
             tail == SplitOnce(parts[2], END)
         IN  IF Len(tail) < 2
             \* "_, after = rest.split(END, 1)" raises ValueError
             THEN [exists |-> TRUE, text |-> text, raised |-> TRUE]
             ELSE [exists |-> TRUE, raised |-> FALSE,
                   text |-> parts[1] \o Block(new_section) \o tail[2]]
    ELSE [exists |-> TRUE, raised |-> FALSE,
          text |-> text \o NL \o NL \o Block(new_section) \o NL]

SpliceInit ==
    /\ readmeExists \in BOOLEAN
    /\ readme \in (IF readmeExists THEN Docs ELSE {<<>>})
    /\ passes = <<>>

\* The splice variables while another phase is modelled.
SpliceIdle ==
    /\ readmeExists = FALSE /\ readme = <<>> /\ passes = <<>>

\* One pass of the script over README.md, with the section it rendered.
SplicePass ==
    /\ Len(passes) < MaxPasses
    /\ \E new_section \in Sections :
         LET w == WriteReadme(readmeExists, readme, new_section) IN
         /\ readmeExists' = w.exists
         /\ readme' = w.text
         /\ passes' = Append(passes, [existed |-> readmeExists, pre |-> readme,
                                      section |-> new_section, post |-> w.text,
                                      raised |-> w.raised])

----------------------------------------------------------------------------
(* Commit & push: lines 752-781.  Every subprocess.run(..., check=True)     *)
(* either returns or raises CalledProcessError, which the except clause     *)
(* turns into two diagnostic commands and sys.exit(1).                      *)

GitOutcomes == {"ok", "fail"}

\* What "git status --porcelain" prints after "git add README.md": a line for
\* every uncommitted change of the working tree, README.md or not.
PorcelainOutput(changed, dirty) ==
    IF changed /\ dirty THEN "M  README.md\n?? other"
    ELSE IF changed THEN "M  README.md"
    ELSE IF dirty THEN "?? other"
    ELSE ""

\* push_token = (TOKENS[0] if TOKENS else None) or os.getenv("GITHUB_TOKEN")
PushToken_Anonymous(tokens, github_token) ==
    IF tokens # <<>> THEN tokens[1]
    ELSE IF github_token # "" THEN github_token
    ELSE "anonymous"

PushToken(tokens, github_token) ==
    IF tokens # <<>> THEN tokens[1] ELSE github_token

\* The except clause: git status, git log -1 (check=False), sys.exit(1).
Diagnose(log) == log \o <<"diag status", "diag log">>

GitInit ==
    /\ gitPc = "config name"
    /\ readmeChanged \in BOOLEAN
    /\ otherDirty \in BOOLEAN
    /\ GITHUB_TOKEN \in {"", "gh"}
    /\ statusOut = "unset"
    /\ gitLog = <<>>
    /\ exitStatus = -1

\* The commit & push variables while another phase is modelled.
GitIdle ==
    /\ gitPc = "config name" /\ readmeChanged = FALSE /\ otherDirty = FALSE
    /\ GITHUB_TOKEN = "" /\ statusOut = "unset" /\ gitLog = <<>>
    /\ exitStatus = -1

\* subprocess.run(["git", cmd, ...], check=True) at position cmd; on success
\* the script goes on to position next.
GitCommand(cmd, next) ==
    /\ gitPc = cmd
    /\ \E outcome \in GitOutcomes :
         IF outcome = "ok"
         THEN /\ gitLog' = Append(gitLog, cmd)
              /\ gitPc' = next
              /\ UNCHANGED exitStatus
         ELSE /\ gitLog' = Diagnose(Append(gitLog, cmd))
              /\ gitPc' = "exited"
              /\ exitStatus' = 1
    /\ UNCHANGED <<readmeChanged, otherDirty, GITHUB_TOKEN, statusOut>>

GitConfigName == GitCommand("config name", "config email")
GitConfigEmail == GitCommand("config email", "add")
GitAdd == GitCommand("add", "status")

\* git status --porcelain, and "if not status.stdout.strip(): sys.exit(0)".
GitStatus ==
    /\ gitPc = "status"
    /\ \E outcome \in GitOutcomes :
         IF outcome = "ok"
         THEN LET out == PorcelainOutput(readmeChanged, otherDirty) IN
              /\ gitLog' = Append(gitLog, "status")
              /\ statusOut' = out
              /\ IF out = ""
                 THEN gitPc' = "exited" /\ exitStatus' = 0
                 ELSE gitPc' = "commit" /\ UNCHANGED exitStatus
         ELSE /\ gitLog' = Diagnose(Append(gitLog, "status"))
              /\ gitPc' = "exited"
              /\ exitStatus' = 1
              /\ UNCHANGED statusOut
    /\ UNCHANGED <<readmeChanged, otherDirty, GITHUB_TOKEN>>

\* git commit, then the choice of push_token and "if not push_token: sys.exit(0)".
GitCommit ==
    /\ gitPc = "commit"
    /\ \E outcome \in GitOutcomes :
         IF outcome = "ok"
         THEN /\ gitLog' = Append(gitLog, "commit")
              /\ IF PushToken(TOKENS, GITHUB_TOKEN) = ""
                 THEN gitPc' = "exited" /\ exitStatus' = 0
                 ELSE gitPc' = "push" /\ UNCHANGED exitStatus
         ELSE /\ gitLog' = Diagnose(Append(gitLog, "commit"))
              /\ gitPc' = "exited"
              /\ exitStatus' = 1
    /\ UNCHANGED <<readmeChanged, otherDirty, GITHUB_TOKEN, statusOut>>

\* git push; after it the script ends.
GitPush ==
    /\ gitPc = "push"
    /\ \E outcome \in GitOutcomes :
         IF outcome = "ok"
         THEN /\ gitLog' = Append(gitLog, "push")
              /\ exitStatus' = 0
         ELSE /\ gitLog' = Diagnose(Append(gitLog, "push"))
              /\ exitStatus' = 1
    /\ gitPc' = "exited"
    /\ UNCHANGED <<readmeChanged, otherDirty, GITHUB_TOKEN, statusOut>>

----------------------------------------------------------------------------
(* Aggregation and rendering: the loop over repos (lines 653-670), add_skill *)
(* (672-698) and the rendering of the sections (700-727).  A Counter is the  *)
(* sequence of its [name, n] entries in insertion order, the order a dict    *)
(* keeps and most_common() breaks ties by.                                   *)

MaxLoopRepos == 2   \* repositories the main loop iterates over

PACKAGE_MANAGERS ==
    {"npm", "yarn", "pip", "pipenv", "poetry", "composer", "cargo", "bundler", "gem"}

FORBIDDEN_SKILLS == {"Jupyter Notebook", "Dockerfile", "CSS", "HTML", "Shell"}

\* The keys of aggregate, in the order of lines 682-698.
AggregateKeys == <<"languages", "frontend", "datasci", "services", "dbs", "devops">>

\* The category of category_map each key of aggregate is added to.
CategoryOf(key) ==
    CASE key = "languages" -> "Programming languages"
      [] key = "frontend" -> "Frontend development"
      [] key = "datasci" -> "Data Science & AI"
      [] key = "services" -> "Services & Frameworks"
      [] key = "dbs" -> "Databases"
      [] key = "devops" -> "DevOps"

order_of_categories ==
    <<"Programming languages", "Frontend development", "Data Science & AI",
      "Misc tools", "Services & Frameworks", "Databases", "DevOps">>

\* The language lists a repository's languages request can return (the keys of
\* detected["languages"], in the order of the response).
LangLists ==
    {<<>>, <<"Python", "Shell">>, <<"Shell", "HCL", "Python">>,
     <<"Svelte", "pip">>, <<"Jupyter Notebook", "Go">>}

\* What detect_for_repo can return.
DetResults ==
    {[languages |-> l, frontend |-> f, services |-> {}, dbs |-> {},
      devops |-> {}, datasci |-> {}, misc |-> {}] :
        l \in LangLists, f \in SUBSET {"React", "Svelte"}}
    \cup
    {[languages |-> <<"Python">>, frontend |-> {}, services |-> {"Flask"},
      dbs |-> {"Redis", "SQLite"}, devops |-> {"Docker"},
      datasci |-> {"NumPy"}, misc |-> {}],
     [languages |-> <<"HCL">>, frontend |-> {}, services |-> {},
      dbs |-> {}, devops |-> {"Terraform", "Docker"},
      datasci |-> {}, misc |-> {}]}

\* The orders in which "for x in a_set" can visit the elements of a set.
Orders(set) == {o \in DistinctSeqs(set, Cardinality(set)) : Len(o) = Cardinality(set)}

Names(counter) == {counter[i].name : i \in 1..Len(counter)}

\* counter[name] (0 for a missing key)
CountOf(counter, name) ==
    IF name \in Names(counter)
    THEN (CHOOSE e \in Range(counter) : e.name = name).n
    ELSE 0

\* counter[name] += 1
Increment(counter, name) ==
    IF name \in Names(counter)
    THEN [i \in 1..Len(counter) |->
            IF counter[i].name = name
            THEN [name |-> name, n |-> counter[i].n + 1]
            ELSE counter[i]]
    ELSE Append(counter, [name |-> name, n |-> 1])

RECURSIVE IncrementAll(_, _)
IncrementAll(counter, names) ==
    IF names = <<>> THEN counter
    ELSE IncrementAll(Increment(counter, Head(names)), Tail(names))

\* The entry e put into a list sorted by decreasing n, after the entries whose
\* n is at least e.n: one step of the stable sort of most_common().
InsertByCount(sorted, e) ==
    LET k == Cardinality({i \in 1..Len(sorted) : sorted[i].n >= e.n})
    IN  SubSeq(sorted, 1, k) \o <<e>> \o SubSeq(sorted, k + 1, Len(sorted))

\* Counter.most_common(): the entries by decreasing count, ties in insertion order.
RECURSIVE MostCommonFrom(_, _)
MostCommonFrom(counter, sorted) ==
    IF counter = <<>> THEN sorted
    ELSE MostCommonFrom(Tail(counter), InsertByCount(sorted, Head(counter)))

most_common(counter) == MostCommonFrom(counter, <<>>)

\* [k for k, _ in counter.most_common()]
MostCommonNames(counter) ==
    LET mc == most_common(counter) IN [i \in 1..Len(mc) |-> mc[i].name]

\* Lines 659-670 for one returned detection; visit gives, per key, the order the
\* for loop visits the detected names in.
Aggregate(agg, visit) ==
    [key \in DOMAIN agg |->
        IF key \in DOMAIN visit THEN IncrementAll(agg[key], visit[key])
        ELSE agg[key]]

\* The orders the loops of lines 659-670 can visit a detection in: the keys of
\* the languages dict in their order, the elements of each set in any order.
Visits(det) ==
    {[languages |-> det.languages, frontend |-> fe, datasci |-> ds,
      services |-> sv, dbs |-> db, devops |-> dv] :
        fe \in Orders(det.frontend), ds \in Orders(det.datasci),
        sv \in Orders(det.services), db \in Orders(det.dbs),
        dv \in Orders(det.devops)}

add_skill_NoExclusion(cmap, category, name) ==
    [cmap EXCEPT ![category] = Increment(cmap[category], name)]

add_skill(cmap, category, name) ==
    IF name \in PACKAGE_MANAGERS THEN cmap
    ELSE IF name \in FORBIDDEN_SKILLS THEN cmap
    ELSE IF category = "Programming languages" /\ name \in {"HCL", "VBA"} THEN cmap
    ELSE [cmap EXCEPT ![category] = Increment(cmap[category], name)]

\* "for x, _ in aggregate[key].most_common(): add_skill(category, x)"
RECURSIVE AddSkills(_, _, _)
AddSkills(cmap, category, names) ==
    IF names = <<>> THEN cmap
    ELSE AddSkills(add_skill(cmap, category, Head(names)), category, Tail(names))

\* Lines 682-698: the six loops, in order.
RECURSIVE AddAllSkills(_, _, _)
AddAllSkills(cmap, agg, keys) ==
    IF keys = <<>> THEN cmap
    ELSE AddAllSkills(
            AddSkills(cmap, CategoryOf(Head(keys)), MostCommonNames(agg[Head(keys)])),
            agg, Tail(keys))

\* Lines 711-722: one section per category whose counter is not empty, with
\* one badge per skill of the category.
RECURSIVE RenderSections(_, _)
RenderSections(cmap, cats) ==
    IF cats = <<>> THEN <<>>
    ELSE IF cmap[Head(cats)] = <<>> THEN RenderSections(cmap, Tail(cats))
    ELSE <<[category |-> Head(cats), badges |-> MostCommonNames(cmap[Head(cats)])]>>
            \o RenderSections(cmap, Tail(cats))

\* What the main loop does with the outcome of detect_for_repo: the except
\* clause of line 656 prints and continues with the next repository.
LoopAfterError_Abort(idx) == [idx |-> idx, pc |-> "raised"]

LoopAfterError(idx) == [idx |-> idx + 1, pc |-> "loop"]

EmptyCounters(keys) == [k \in keys |-> <<>>]

MainInit ==
    /\ mainPc = "loop"
    /\ aggregate = EmptyCounters(Range(AggregateKeys) \cup {"misc"})
    /\ category_map = EmptyCounters(Range(order_of_categories))
    /\ sections = <<>>
    /\ outcomes = <<>>

\* The aggregation variables while another phase is modelled.
MainIdle == MainInit

\* One iteration of "for full in repos": detect_for_repo raises, or returns a
\* detection that is added to aggregate.
DetectRepo ==
    /\ mainPc = "loop"
    /\ callIdx <= Len(sortedRepos)
    /\ \/ LET a == LoopAfterError(callIdx) IN
          /\ callIdx' = a.idx
          /\ mainPc' = a.pc
          /\ outcomes' = Append(outcomes, [raised |-> TRUE, det |-> <<>>])
          /\ UNCHANGED aggregate
       \/ \E det \in DetResults : \E visit \in Visits(det) :
          /\ aggregate' = Aggregate(aggregate, visit)
          /\ callIdx' = callIdx + 1
          /\ outcomes' = Append(outcomes, [raised |-> FALSE, det |-> det])
          /\ UNCHANGED mainPc
    /\ UNCHANGED <<sortedRepos, category_map, sections>>

\* Lines 682-698, once the loop is over.
AddToCategories ==
    /\ mainPc = "loop"
    /\ callIdx > Len(sortedRepos)
    /\ category_map' = AddAllSkills(category_map, aggregate, AggregateKeys)
    /\ mainPc' = "render"
    /\ UNCHANGED <<sortedRepos, callIdx, aggregate, sections, outcomes>>

\* Lines 700-727.
Render ==
    /\ mainPc = "render"
    /\ sections' = RenderSections(category_map, order_of_categories)
    /\ mainPc' = "rendered"
    /\ UNCHANGED <<sortedRepos, callIdx, aggregate, category_map, outcomes>>

----------------------------------------------------------------------------
(* detect_for_repo, data-science part: parse_imports_from_py over the .py   *)
(* files (lines 455-477) and the import + usage loop (lines 560-592).       *)
(* A file text is a sequence of lines and a line a sequence of tokens: the  *)
(* maximal runs of word characters, and the punctuation characters.  White  *)
(* space, which all the regular expressions skip with \s, separates them.   *)

MaxLines == 2       \* lines of a .py file

DS_LIB_KEYWORDS ==
    [k \in {"numpy", "pandas", "scikit-learn", "sklearn", "torch", "pytorch",
            "tensorflow", "hydra", "hydra-core", "wandb", "optuna",
            "transformers", "datasets", "sentence-transformers", "keras",
            "xgboost", "lightgbm", "catboost", "spacy", "statsmodels", "scipy",
            "gensim", "fastai"} |->
        CASE k = "numpy" -> "NumPy"
          [] k = "pandas" -> "Pandas"
          [] k \in {"scikit-learn", "sklearn"} -> "Scikit-learn"
          [] k \in {"torch", "pytorch"} -> "PyTorch"
          [] k = "tensorflow" -> "TensorFlow"
          [] k \in {"hydra", "hydra-core"} -> "Hydra"
          [] k = "wandb" -> "WandB"
          [] k = "optuna" -> "Optuna"
          [] k \in {"transformers", "datasets", "sentence-transformers"} -> "HuggingFace"
          [] k = "keras" -> "Keras"
          [] k = "xgboost" -> "XGBoost"
          [] k = "lightgbm" -> "LightGBM"
          [] k = "catboost" -> "CatBoost"
          [] k = "spacy" -> "spaCy"
          [] k = "statsmodels" -> "Statsmodels"
          [] k = "scipy" -> "SciPy"
          [] k = "gensim" -> "Gensim"
          [] k = "fastai" -> "fastai"]

\* The lines the .py files of the model are made of.
ImportLines ==
    {<<"import", "numpy">>,
     <<"import", "torch", ".", "nn">>,
     <<"import", "numpy", "as", "np">>,
     <<"import", "numpy", "as", "NP">>,
     <<"import", "os", ",", "pandas", "as", "pd">>,
     <<"from", "numpy", "import", "array">>,
     <<"from", "sklearn", ".", "preprocessing", "import", "StandardScaler">>,
     <<"from", "torch", "import", "Tensor", "as", "T", ",", "nn">>}

CodeLines ==
    {<<"x", "=", "np", ".", "zeros", "(", "n", ")">>,
     <<"x", "=", "NP", ".", "zeros", "(", "n", ")">>,
     <<"x", "=", "numpy", ".", "zeros", "(", "n", ")">>,
     <<"x", "=", "array", "(", "n", ")">>,
     <<"s", "=", "StandardScaler", "(", ")">>,
     <<"t", "=", "T", "(", "n", ")">>,
     <<"d", "=", "pd", ".", "DataFrame", "(", ")">>,
     <<"m", "=", "nn", ".", "Linear", "(", "n", ",", "n", ")">>,
     <<"print", "(", "n", ")">>}

Lines == ImportLines \cup CodeLines

\* str.lower() on a token (the tokens of Lines with an upper-case letter).
Lower(t) ==
    CASE t = "NP" -> "np"
      [] t = "StandardScaler" -> "standardscaler"
      [] t = "Tensor" -> "tensor"
      [] t = "T" -> "t"
      [] t = "DataFrame" -> "dataframe"
      [] t = "Linear" -> "linear"
      [] t = ".PY" -> ".py"
      [] OTHER -> t

LowerAll(ts) == [i \in 1..Len(ts) |-> Lower(ts[i])]

Punctuation == {".", ",", "(", ")", "="}

\* re.split on a separator token: the pieces of ts between the positions seps.
RECURSIVE PiecesFrom(_, _, _)
PiecesFrom(ts, seps, start) ==
    LET later == {i \in seps : i >= start} IN
    IF later = {} THEN <<SubSeq(ts, start, Len(ts))>>
    ELSE <<SubSeq(ts, start, Min(later) - 1)>> \o PiecesFrom(ts, seps, Min(later) + 1)

\* re.split(r',\s*', rest)
SplitCommas(ts) == PiecesFrom(ts, {i \in 1..Len(ts) : ts[i] = ","}, 1)

\* re.split(r'\s+as\s+', part, flags=re.IGNORECASE): an "as" with text before
\* and after it.
SplitAs(ts) ==
    PiecesFrom(ts, {i \in 2..(Len(ts) - 1) : Lower(ts[i]) = "as"}, 1)

\* The position of the "import" that ends the module of a line matched by the
\* first alternative of _import_re, "from <module> import <rest>"; 0 if the
\* line is not matched by it.  The module is one run of names and dots: two
\* names in a row have white space between them.
FromImportAt(line) ==
    IF Len(line) >= 4 /\ line[1] = "from"
    THEN LET cands == {i \in 3..(Len(line) - 1) :
                          /\ line[i] = "import"
                          /\ \A j \in 2..(i - 1) :
                                 line[j] \notin Punctuation \ {"."}
                          /\ \A j \in 2..(i - 2) :
                                 line[j] = "." \/ line[j + 1] = "."}
         IN  IF cands = {} THEN 0
             ELSE CHOOSE i \in cands : \A j \in cands : j <= i
    ELSE 0

\* The line is matched by the second alternative, "import <rest>".
IsPlainImport(line) ==
    FromImportAt(line) = 0 /\ Len(line) >= 2 /\ line[1] = "import"

\* mod.split('.')[0].lower()
BaseOf(mod) == IF mod = <<>> \/ mod[1] = "." THEN "" ELSE Lower(mod[1])

\* parse_imports_from_py for one line: the [base, name] entries the line adds to
\* imports_map (kind "import") and to from_imports_map (kind "from").
ParseLine(line) ==
    IF FromImportAt(line) # 0
    THEN LET k == FromImportAt(line)
             base == BaseOf(SubSeq(line, 2, k - 1))
             symbols == SplitCommas(SubSeq(line, k + 1, Len(line)))
         IN  {[kind |-> "from", base |-> base,
               name |-> LowerAll(SplitAs(symbols[i])[1])] :
                  i \in 1..Len(symbols)}
    ELSE IF IsPlainImport(line)
    THEN LET parts == SplitCommas(SubSeq(line, 2, Len(line)))
         IN  {[kind |-> "import", base |-> BaseOf(SplitAs(parts[i])[1]),
               name |-> IF Len(SplitAs(parts[i])) > 1
                        THEN LowerAll(SplitAs(parts[i])[2])
                        ELSE <<BaseOf(SplitAs(parts[i])[1])>>] :
                  i \in 1..Len(parts)}
    ELSE {}

\* parse_imports_from_py(text): the entries of both maps.
parse_imports_from_py(text) == UNION {ParseLine(text[i]) : i \in 1..Len(text)}

\* The text as one token stream (\s matches a line break too).
RECURSIVE Flatten(_)
Flatten(text) == IF text = <<>> THEN <<>> ELSE Head(text) \o Flatten(Tail(text))

\* re.search(r'\b' + re.escape(name) + r'\s*' + re.escape(next), txt)
SearchNameThen(name, next, txt) ==
    LET ts == Flatten(txt) IN
    \E i \in 1..(Len(ts) - Len(name)) :
        /\ SubSeq(ts, i, i + Len(name) - 1) = name
        /\ ts[i + Len(name)] = next

\* lpath.endswith(".py")
IsPy(file) == Lower(file.ext) = ".py"

\* "if not txt: continue": the file adds nothing when its content request
\* failed or its text is empty.
HasText(file) == file.fetched /\ file.text # <<>>

\* file_texts: the texts of the .py files that have one.
FileTexts(files) ==
    {files[i].text : i \in {j \in 1..Len(files) : IsPy(files[j]) /\ HasText(files[j])}}

\* imports_map_all and from_imports_map_all, as one set of entries.
ImportsAll(files) == UNION {parse_imports_from_py(t) : t \in FileTexts(files)}

\* The body of "for ds_key, ds_label in DS_LIB_KEYWORDS.items()": used.
Used(ds_key, files) ==
    LET base == Lower(ds_key)
        aliases == {e.name : e \in {x \in ImportsAll(files) :
                                        x.kind = "import" /\ x.base = base}}
        symbols == {e.name : e \in {x \in ImportsAll(files) :
                                        x.kind = "from" /\ x.base = base}}
    IN  \/ \E txt \in FileTexts(files) : \E alias \in aliases :
               SearchNameThen(alias, ".", txt)
        \/ \E txt \in FileTexts(files) : \E sym \in symbols :
               SearchNameThen(sym, "(", txt) \/ SearchNameThen(sym, ".", txt)

\* Lines 560-592: detected["datasci"].
DetectDatasci(files) ==
    {DS_LIB_KEYWORDS[k] : k \in {x \in DOMAIN DS_LIB_KEYWORDS : Used(x, files)}}

\* The texts of at most n lines.
RECURSIVE TextsOf(_)
TextsOf(n) ==
    IF n = 0 THEN {<<>>}
    ELSE TextsOf(n - 1) \cup {Append(t, l) : t \in TextsOf(n - 1), l \in Lines}

\* The candidate files of a repository: one file of up to MaxLines lines, or
\* two files of one line each; a file whose content request fails has
\* fetched = FALSE (get_file_content returns None).
OneLineFiles ==
    {[ext |-> ".py", fetched |-> TRUE, text |-> <<l>>] : l \in Lines}

RepoFileSets ==
    {<<[ext |-> e, fetched |-> f, text |-> t]>> :
        e \in {".py", ".PY", ".txt"}, f \in BOOLEAN, t \in TextsOf(MaxLines)}
    \cup {<<a, b>> : a \in OneLineFiles, b \in OneLineFiles}

DsInit ==
    /\ dsPc = "scan"
    /\ repoFiles \in RepoFileSets
    /\ datasci = {}

\* The data-science variables while another phase is modelled.
DsIdle == dsPc = "scan" /\ repoFiles = <<>> /\ datasci = {}

\* detect_for_repo, from the fetch of the candidate files to detected["datasci"].
ScanDatasci ==
    /\ dsPc = "scan"
    /\ datasci' = DetectDatasci(repoFiles)
    /\ dsPc' = "done"
    /\ UNCHANGED repoFiles

----------------------------------------------------------------------------
(* detect_for_repo, keyword scans: content_blob (lines 446-477) and the     *)
(* scans of it (lines 479-551).  Texts, keywords and paths are sequences of *)
(* characters.                                                              *)

MaxWords == 2       \* words of a file text

DB_KEYWORDS ==
    {[k |-> <<"p", "o", "s", "t", "g", "r", "e", "s">>,
     label |-> "PostgreSQL"],
    [k |-> <<"p", "o", "s", "t", "g", "r", "e", "s", "q", "l">>,
     label |-> "PostgreSQL"],
    [k |-> <<"p", "s", "y", "c", "o", "p", "g", "2">>,
     label |-> "PostgreSQL"],
    [k |-> <<"p", "g">>,
     label |-> "PostgreSQL"],
    [k |-> <<"m", "y", "s", "q", "l">>,
     label |-> "MySQL"],
    [k |-> <<"m", "a", "r", "i", "a", "d", "b">>,
     label |-> "MariaDB"],
    [k |-> <<"p", "y", "m", "y", "s", "q", "l">>,
     label |-> "MySQL"],
    [k |-> <<"m", "y", "s", "q", "l", "-", "c", "o", "n", "n", "e", "c", "t", "o", "r">>,
     label |-> "MySQL"],
    [k |-> <<"s", "q", "l", "i", "t", "e">>,
     label |-> "SQLite"],
    [k |-> <<"s", "q", "l", "i", "t", "e", "3">>,
     label |-> "SQLite"],
    [k |-> <<"m", "o", "n", "g", "o", "d", "b">>,
     label |-> "MongoDB"],
    [k |-> <<"m", "o", "n", "g", "o">>,
     label |-> "MongoDB"],
    [k |-> <<"r", "e", "d", "i", "s">>,
     label |-> "Redis"],
    [k |-> <<"c", "o", "c", "k", "r", "o", "a", "c", "h">>,
     label |-> "CockroachDB"],
    [k |-> <<"m", "s", "s", "q", "l">>,
     label |-> "SQL Server"],
    [k |-> <<"s", "q", "l", "s", "e", "r", "v", "e", "r">>,
     label |-> "SQL Server"]}

FRONTEND_KEYWORDS ==
    {[k |-> <<"r", "e", "a", "c", "t">>,
     label |-> "React"],
    [k |-> <<"n", "e", "x", "t">>,
     label |-> "Next.js"],
    [k |-> <<"n", "e", "x", "t", ".", "j", "s">>,
     label |-> "Next.js"],
    [k |-> <<"v", "u", "e">>,
     label |-> "Vue.js"],
    [k |-> <<"n", "u", "x", "t">>,
     label |-> "Nuxt"],
    [k |-> <<"a", "n", "g", "u", "l", "a", "r">>,
     label |-> "Angular"],
    [k |-> <<"s", "v", "e", "l", "t", "e">>,
     label |-> "Svelte"],
    [k |-> <<"v", "i", "t", "e">>,
     label |-> "Vite"],
    [k |-> <<"w", "e", "b", "p", "a", "c", "k">>,
     label |-> "Webpack"]}

SERVICE_KEYWORDS ==
    {[k |-> <<"d", "j", "a", "n", "g", "o">>,
     label |-> "Django"],
    [k |-> <<"f", "l", "a", "s", "k">>,
     label |-> "Flask"],
    [k |-> <<"f", "a", "s", "t", "a", "p", "i">>,
     label |-> "FastAPI"],
    [k |-> <<"e", "x", "p", "r", "e", "s", "s">>,
     label |-> "Express"],
    [k |-> <<"s", "p", "r", "i", "n", "g">>,
     label |-> "Spring"],
    [k |-> <<"l", "a", "r", "a", "v", "e", "l">>,
     label |-> "Laravel"],
    [k |-> <<"a", "s", "p", ".", "n", "e", "t">>,
     label |-> "ASP.NET"],
    [k |-> <<"g", "r", "a", "p", "h", "q", "l">>,
     label |-> "GraphQL"],
    [k |-> <<"r", "a", "b", "b", "i", "t", "m", "q">>,
     label |-> "RabbitMQ"],
    [k |-> <<"k", "a", "f", "k", "a">>,
     label |-> "Kafka"]}

DEVOPS_KEYWORDS ==
    {[k |-> <<"d", "o", "c", "k", "e", "r">>,
     label |-> "Docker"],
    [k |-> <<"k", "u", "b", "e", "r", "n", "e", "t", "e", "s">>,
     label |-> "Kubernetes"],
    [k |-> <<"k", "8", "s">>,
     label |-> "Kubernetes"],
    [k |-> <<"h", "e", "l", "m">>,
     label |-> "Helm"],
    [k |-> <<"t", "e", "r", "r", "a", "f", "o", "r", "m">>,
     label |-> "Terraform"],
    [k |-> <<"a", "n", "s", "i", "b", "l", "e">>,
     label |-> "Ansible"],
    [k |-> <<"g", "i", "t", "h", "u", "b", " ", "a", "c", "t", "i", "o", "n", "s">>,
     label |-> "GitHub Actions"],
    [k |-> <<"g", "i", "t", "h", "u", "b", "-", "a", "c", "t", "i", "o", "n", "s">>,
     label |-> "GitHub Actions"],
    [k |-> <<"c", "i", "r", "c", "l", "e", "c", "i">>,
     label |-> "CircleCI"],
    [k |-> <<"g", "i", "t", "l", "a", "b", "-", "c", "i">>,
     label |-> "GitLab CI"],
    [k |-> <<"t", "r", "a", "v", "i", "s">>,
     label |-> "Travis CI"],
    [k |-> <<"a", "w", "s">>,
     label |-> "AWS"],
    [k |-> <<"a", "m", "a", "z", "o", "n", " ", "w", "e", "b", " ", "s", "e", "r", "v", "i", "c", "e", "s">>,
     label |-> "AWS"],
    [k |-> <<"g", "c", "p">>,
     label |-> "GCP"],
    [k |-> <<"g", "o", "o", "g", "l", "e", " ", "c", "l", "o", "u", "d">>,
     label |-> "GCP"],
    [k |-> <<"a", "z", "u", "r", "e">>,
     label |-> "Azure"],
    [k |-> <<"m", "i", "c", "r", "o", "s", "o", "f", "t", " ", "a", "z", "u", "r", "e">>,
     label |-> "Azure"],
    [k |-> <<"p", "r", "o", "m", "e", "t", "h", "e", "u", "s">>,
     label |-> "Prometheus"],
    [k |-> <<"g", "r", "a", "f", "a", "n", "a">>,
     label |-> "Grafana"],
    [k |-> <<"n", "g", "i", "n", "x">>,
     label |-> "Nginx"],
    [k |-> <<"c", "h", "e", "f">>,
     label |-> "Chef"],
    [k |-> <<"c", "o", "n", "s", "u", "l">>,
     label |-> "Consul"]}

CLOUD_PATTERNS ==
    {[k |-> <<"p", "r", "o", "v", "i", "d", "e", "r", " ", "\"", "a", "w", "s", "\"">>,
     label |-> "AWS"],
    [k |-> <<"p", "r", "o", "v", "i", "d", "e", "r", " ", "\"", "g", "o", "o", "g", "l", "e", "\"">>,
     label |-> "GCP"],
    [k |-> <<"p", "r", "o", "v", "i", "d", "e", "r", " ", "\"", "g", "o", "o", "g", "l", "e", "-", "b", "e", "t", "a", "\"">>,
     label |-> "GCP"],
    [k |-> <<"p", "r", "o", "v", "i", "d", "e", "r", " ", "\"", "a", "z", "u", "r", "e", "r", "m", "\"">>,
     label |-> "Azure"],
    [k |-> <<"c", "l", "o", "u", "d", "f", "o", "r", "m", "a", "t", "i", "o", "n">>,
     label |-> "AWS"],
    [k |-> <<"s", "e", "r", "v", "e", "r", "l", "e", "s", "s">>,
     label |-> "AWS"],
    [k |-> <<"s", "a", "m">>,
     label |-> "AWS"],
    [k |-> <<"g", "c", "l", "o", "u", "d">>,
     label |-> "GCP"],
    [k |-> <<"g", "o", "o", "g", "l", "e", " ", "c", "l", "o", "u", "d">>,
     label |-> "GCP"],
    [k |-> <<"a", "z", "u", "r", "e", "r", "m">>,
     label |-> "Azure"],
    [k |-> <<"a", "z", "u", "r", "e", "-", "p", "i", "p", "e", "l", "i", "n", "e", "s">>,
     label |-> "Azure"]}

OPS_PATTERNS ==
    {[k |-> <<"p", "r", "o", "m", "e", "t", "h", "e", "u", "s">>,
     label |-> "Prometheus"],
    [k |-> <<"g", "r", "a", "f", "a", "n", "a">>,
     label |-> "Grafana"],
    [k |-> <<"n", "g", "i", "n", "x">>,
     label |-> "Nginx"],
    [k |-> <<"c", "h", "e", "f">>,
     label |-> "Chef"],
    [k |-> <<"c", "o", "n", "s", "u", "l">>,
     label |-> "Consul"],
    [k |-> <<"p", "r", "o", "m", "e", "t", "h", "e", "u", "s", ".", "y", "m", "l">>,
     label |-> "Prometheus"],
    [k |-> <<"g", "r", "a", "f", "a", "n", "a", ".", "i", "n", "i">>,
     label |-> "Grafana"],
    [k |-> <<"c", "o", "n", "s", "u", "l", ".", "h", "c", "l">>,
     label |-> "Consul"],
    [k |-> <<"b", "e", "r", "k", "s", "f", "i", "l", "e">>,
     label |-> "Chef"],
    [k |-> <<"r", "e", "c", "i", "p", "e", "s", "/">>,
     label |-> "Chef"]}

\* The tests 'if "..." in content_blob' of lines 534-551.
BlobTests ==
    {[k |-> <<"k", "u", "b", "e", "r", "n", "e", "t", "e", "s">>,
      label |-> "Kubernetes"],
     [k |-> <<"k", "8", "s">>,
      label |-> "Kubernetes"],
     [k |-> <<"g", "i", "t", "h", "u", "b", " ", "a", "c", "t", "i", "o", "n", "s">>,
      label |-> "GitHub Actions"],
     [k |-> <<"t", "e", "r", "r", "a", "f", "o", "r", "m">>,
      label |-> "Terraform"],
     [k |-> <<"h", "e", "l", "m">>,
      label |-> "Helm"],
     [k |-> <<"p", "r", "o", "m", "e", "t", "h", "e", "u", "s">>,
      label |-> "Prometheus"],
     [k |-> <<"g", "r", "a", "f", "a", "n", "a">>,
      label |-> "Grafana"],
     [k |-> <<"n", "g", "i", "n", "x">>,
      label |-> "Nginx"],
     [k |-> <<"c", "o", "n", "s", "u", "l">>,
      label |-> "Consul"],
     [k |-> <<"c", "h", "e", "f">>,
      label |-> "Chef"],
     [k |-> <<"c", "o", "o", "k", "b", "o", "o", "k">>,
      label |-> "Chef"]}

\* The words the file texts of the model are made of.
Words ==
    {<<"p", "g">>,
     <<"u", "p", "g", "r", "a", "d", "e">>,
     <<"R", "e", "d", "i", "s">>,
     <<"a", "w", "s">>,
     <<"l", "a", "w", "s">>,
     <<"s", "a", "m", "p", "l", "e">>,
     <<"v", "u", "e">>,
     <<"n", "e", "x", "t", ".", "j", "s">>,
     <<"f", "l", "a", "s", "k">>}

WorkflowsDir == <<".", "g", "i", "t", "h", "u", "b", "/", "w", "o", "r", "k", "f", "l", "o", "w", "s">>

PathSets ==
    {<<<<"m", "a", "i", "n", ".", "p", "y">>>>,
     <<<<"m", "a", "i", "n", ".", "p", "y">>, <<".", "g", "i", "t", "h", "u", "b", "/", "w", "o", "r", "k", "f", "l", "o", "w", "s", "/", "c", "i", ".", "y", "m", "l">>>>}

Separators == {<<" ">>, <<"-">>, <<"_">>}

UpperCase ==
    <<"A", "B", "C", "D", "E", "F", "G", "H", "I", "J", "K", "L", "M",
      "N", "O", "P", "Q", "R", "S", "T", "U", "V", "W", "X", "Y", "Z">>

LowerCase ==
    <<"a", "b", "c", "d", "e", "f", "g", "h", "i", "j", "k", "l", "m",
      "n", "o", "p", "q", "r", "s", "t", "u", "v", "w", "x", "y", "z">>

\* str.lower() on a character.
LowerChar(c) ==
    IF c \in Range(UpperCase)
    THEN LowerCase[CHOOSE i \in 1..Len(UpperCase) : UpperCase[i] = c]
    ELSE c

LowerText(text) == [i \in 1..Len(text) |-> LowerChar(text[i])]

\* The texts of n words, n >= 1.
RECURSIVE WordTexts(_)
WordTexts(n) ==
    IF n = 1 THEN Words
    ELSE {t \o sep \o w : t \in WordTexts(n - 1), sep \in Separators, w \in Words}

\* The fetched contents: one file of up to MaxWords words (or empty, or not
\* fetched: both are falsy), or two files of one word each.
ContentSets ==
    {<<t>> : t \in {<<>>} \cup UNION {WordTexts(n) : n \in 1..MaxWords}}
    \cup {<<a, b>> : a \in Words, b \in Words}

\* content_blob += "\n" + txt.lower(), for every file with a text.
RECURSIVE content_blob(_)
content_blob(texts) ==
    IF texts = <<>> THEN <<>>
    ELSE IF Head(texts) = <<>> THEN content_blob(Tail(texts))
    ELSE NL \o LowerText(Head(texts)) \o content_blob(Tail(texts))

\* "\n".join(paths)
RECURSIVE JoinLines(_)
JoinLines(ps) ==
    IF ps = <<>> THEN <<>>
    ELSE IF Len(ps) = 1 THEN ps[1]
    ELSE ps[1] \o NL \o JoinLines(Tail(ps))

\* k.lower() in txt
KeywordIn(k, txt) == Contains(txt, LowerText(k))

scan_file_text_for_keywords(text, keywords_map) ==
    LET txt == LowerText(text) IN
    {e.label : e \in {x \in keywords_map : KeywordIn(x.k, txt)}}

\* Lines 499-551: the labels the additional patterns add to detected["devops"].
AdditionalDevops(blob, ps) ==
    {e.label : e \in {x \in CLOUD_PATTERNS \cup OPS_PATTERNS \cup BlobTests :
                          Contains(blob, x.k)}}
    \cup (IF Contains(JoinLines(ps), WorkflowsDir) THEN {"GitHub Actions"} ELSE {})

NothingFound == [dbs |-> {}, frontend |-> {}, services |-> {}, devops |-> {}]

ScanInit ==
    /\ scanPc = "scan"
    /\ paths \in PathSets
    /\ fileContents \in ContentSets
    /\ found = NothingFound
    /\ detected = NothingFound

\* The keyword-scan variables while another phase is modelled.
ScanIdle ==
    /\ scanPc = "scan"
    /\ paths = <<>>
    /\ fileContents = <<>>
    /\ found = NothingFound
    /\ detected = NothingFound

\* detect_for_repo, lines 479-551.
ScanKeywords ==
    /\ scanPc = "scan"
    /\ LET blob == content_blob(fileContents)
           dbs_found == scan_file_text_for_keywords(blob, DB_KEYWORDS)
           fe_found == scan_file_text_for_keywords(blob, FRONTEND_KEYWORDS)
           svc_found == scan_file_text_for_keywords(blob, SERVICE_KEYWORDS)
           dev_found == scan_file_text_for_keywords(blob, DEVOPS_KEYWORDS)
       IN  /\ found' = [dbs |-> dbs_found, frontend |-> fe_found,
                        services |-> svc_found, devops |-> dev_found]
           /\ detected' = [dbs |-> dbs_found, frontend |-> fe_found,
                           services |-> svc_found,
                           devops |-> dev_found \cup AdditionalDevops(blob, paths)]
    /\ scanPc' = "done"
    /\ UNCHANGED <<paths, fileContents>>

----------------------------------------------------------------------------
(* detect_for_repo, candidate selection: the loop over the blob paths of    *)
(* the tree (lines 415-444).  Paths are sequences of characters.            *)

MaxPaths == 2       \* blob paths of a tree

\* The keys of FILE_TOOL_MAP.
FILE_TOOL_MAP ==
    {<<"p", "a", "c", "k", "a", "g", "e", ".", "j", "s", "o", "n">>,
     <<"p", "y", "p", "r", "o", "j", "e", "c", "t", ".", "t", "o", "m", "l">>,
     <<"r", "e", "q", "u", "i", "r", "e", "m", "e", "n", "t", "s", ".", "t", "x", "t">>,
     <<"P", "i", "p", "f", "i", "l", "e">>,
     <<"p", "o", "e", "t", "r", "y", ".", "l", "o", "c", "k">>,
     <<"g", "o", ".", "m", "o", "d">>,
     <<"p", "o", "m", ".", "x", "m", "l">>,
     <<"b", "u", "i", "l", "d", ".", "g", "r", "a", "d", "l", "e">>,
     <<"G", "e", "m", "f", "i", "l", "e">>,
     <<"c", "o", "m", "p", "o", "s", "e", "r", ".", "j", "s", "o", "n">>,
     <<"D", "o", "c", "k", "e", "r", "f", "i", "l", "e">>,
     <<"n", "e", "x", "t", ".", "c", "o", "n", "f", "i", "g", ".", "j", "s">>,
     <<"n", "u", "x", "t", ".", "c", "o", "n", "f", "i", "g">>,
     <<"a", "n", "g", "u", "l", "a", "r", ".", "j", "s", "o", "n">>,
     <<"v", "i", "t", "e", ".", "c", "o", "n", "f", "i", "g", ".", "j", "s">>,
     <<"w", "e", "b", "p", "a", "c", "k", ".", "c", "o", "n", "f", "i", "g", ".", "j", "s">>,
     <<"C", "a", "r", "g", "o", ".", "t", "o", "m", "l">>}

\* The set of line 426.
ConfigNames ==
    {<<".", "e", "n", "v">>,
     <<".", "e", "n", "v", ".", "e", "x", "a", "m", "p", "l", "e">>,
     <<".", "e", "n", "v", ".", "s", "a", "m", "p", "l", "e">>,
     <<"d", "a", "t", "a", "b", "a", "s", "e", ".", "y", "m", "l">>,
     <<"d", "a", "t", "a", "b", "a", "s", "e", ".", "y", "a", "m", "l">>,
     <<"a", "p", "p", "l", "i", "c", "a", "t", "i", "o", "n", ".", "y", "m", "l">>,
     <<"c", "o", "n", "f", "i", "g", ".", "y", "m", "l">>}

\* The set of line 428.
ManifestNames ==
    {<<"p", "a", "c", "k", "a", "g", "e", ".", "j", "s", "o", "n">>,
     <<"r", "e", "q", "u", "i", "r", "e", "m", "e", "n", "t", "s", ".", "t", "x", "t">>,
     <<"p", "y", "p", "r", "o", "j", "e", "c", "t", ".", "t", "o", "m", "l">>,
     <<"p", "o", "m", ".", "x", "m", "l">>,
     <<"g", "o", ".", "m", "o", "d">>,
     <<"c", "o", "m", "p", "o", "s", "e", "r", ".", "j", "s", "o", "n">>,
     <<"G", "e", "m", "f", "i", "l", "e">>,
     <<"C", "a", "r", "g", "o", ".", "t", "o", "m", "l">>}

\* The keys of lines 432-435.
CloudOpsNames ==
    {<<"c", "l", "o", "u", "d", "f", "o", "r", "m", "a", "t", "i", "o", "n">>,
     <<"s", "e", "r", "v", "e", "r", "l", "e", "s", "s", ".", "y", "m", "l">>,
     <<"s", "e", "r", "v", "e", "r", "l", "e", "s", "s", ".", "y", "a", "m", "l">>,
     <<"a", "z", "u", "r", "e", "-", "p", "i", "p", "e", "l", "i", "n", "e", "s", ".", "y", "m", "l">>,
     <<"c", "l", "o", "u", "d", "b", "u", "i", "l", "d", ".", "y", "a", "m", "l">>,
     <<"s", "a", "m", ".", "y", "a", "m", "l">>,
     <<"p", "r", "o", "m", "e", "t", "h", "e", "u", "s", ".", "y", "m", "l">>,
     <<"g", "r", "a", "f", "a", "n", "a", ".", "i", "n", "i">>,
     <<"n", "g", "i", "n", "x", ".", "c", "o", "n", "f">>,
     <<"c", "o", "n", "s", "u", "l", ".", "h", "c", "l">>,
     <<"b", "e", "r", "k", "s", "f", "i", "l", "e">>}

PathDirs ==
    {<<>>,
     <<"a", "p", "p", "/">>}

\* The basenames of the blob paths of the model.
Basenames ==
    {<<"p", "a", "c", "k", "a", "g", "e", ".", "j", "s", "o", "n">>,
     <<"r", "e", "q", "u", "i", "r", "e", "m", "e", "n", "t", "s", ".", "t", "x", "t">>,
     <<"p", "y", "p", "r", "o", "j", "e", "c", "t", ".", "t", "o", "m", "l">>,
     <<"P", "i", "p", "f", "i", "l", "e">>,
     <<"p", "o", "e", "t", "r", "y", ".", "l", "o", "c", "k">>,
     <<"g", "o", ".", "m", "o", "d">>,
     <<"p", "o", "m", ".", "x", "m", "l">>,
     <<"b", "u", "i", "l", "d", ".", "g", "r", "a", "d", "l", "e">>,
     <<"G", "e", "m", "f", "i", "l", "e">>,
     <<"c", "o", "m", "p", "o", "s", "e", "r", ".", "j", "s", "o", "n">>,
     <<"C", "a", "r", "g", "o", ".", "t", "o", "m", "l">>,
     <<"e", "n", "v", "i", "r", "o", "n", "m", "e", "n", "t", ".", "y", "m", "l">>,
     <<"D", "o", "c", "k", "e", "r", "f", "i", "l", "e", ".", "d", "e", "v">>,
     <<"n", "o", "t", "e", "s", ".", "t", "x", "t">>}

OtherPaths ==
    {<<"c", "o", "o", "k", "b", "o", "o", "k", "s", "/", "r", "e", "c", "i", "p", "e", "s", "/", "d", "e", "f", "a", "u", "l", "t", ".", "r", "b">>,
     <<"d", "e", "p", "l", "o", "y", "/", "c", "h", "a", "r", "t", "s", "/", "w", "e", "b", "/", "v", "a", "l", "u", "e", "s", ".", "y", "a", "m", "l">>,
     <<"h", "e", "l", "m", "/", "C", "h", "a", "r", "t", ".", "y", "a", "m", "l">>,
     <<"d", "b", "/", "s", "c", "h", "e", "m", "a", ".", "s", "q", "l">>,
     <<"i", "n", "f", "r", "a", "/", "m", "a", "i", "n", ".", "t", "f">>,
     <<"s", "r", "c", "/", "M", "a", "i", "n", ".", "P", "Y">>,
     <<"c", "o", "n", "f", "i", "g", "/", ".", "e", "n", "v">>,
     <<"s", "e", "r", "v", "e", "r", "l", "e", "s", "s", ".", "y", "m", "l">>,
     <<"m", "e", "t", "a", "d", "a", "t", "a", ".", "r", "b">>}

\* The blob paths a tree of the model can hold.
TreePaths == {d \o b : d \in PathDirs, b \in Basenames} \cup OtherPaths

\* os.path.basename(p)
Basename(p) ==
    LET slashes == {i \in 1..Len(p) : p[i] = "/"} IN
    IF slashes = {} THEN p
    ELSE SubSeq(p, (CHOOSE i \in slashes : \A j \in slashes : j <= i) + 1, Len(p))

\* text.endswith(suffix)
EndsWith(text, suffix) ==
    /\ Len(text) >= Len(suffix)
    /\ SubSeq(text, Len(text) - Len(suffix) + 1, Len(text)) = suffix

\* The conditions of one iteration of the loop, in order; each one that holds
\* appends p to candidates_to_fetch.
SelectionTests(p) ==
    LET basename == LowerText(Basename(p))
        lower == LowerText(p)
    IN  <<basename \in FILE_TOOL_MAP,
          EndsWith(p, <<".", "t", "f">>),
          EndsWith(p, <<".", "s", "q", "l">>),
          Contains(basename, <<"d", "o", "c", "k", "e", "r", "f", "i", "l", "e">>),
          basename \in ConfigNames,
          basename \in ManifestNames,
          \E key \in CloudOpsNames : Contains(basename, key),
          \/ Contains(lower, <<"/", "r", "e", "c", "i", "p", "e", "s", "/">>)
          \/ basename = <<"m", "e", "t", "a", "d", "a", "t", "a", ".", "r", "b">>
          \/ basename = <<"b", "e", "r", "k", "s", "f", "i", "l", "e">>,
          \/ EndsWith(lower, <<"c", "h", "a", "r", "t", ".", "y", "a", "m", "l">>)
          \/ Contains(lower, <<"/", "c", "h", "a", "r", "t", "s", "/">>),
          EndsWith(lower, <<".", "p", "y">>)>>

\* The appends of one iteration of the loop for path p.
RECURSIVE AppendsFor(_, _)
AppendsFor(p, tests) ==
    IF tests = <<>> THEN <<>>
    ELSE (IF Head(tests) THEN <<p>> ELSE <<>>) \o AppendsFor(p, Tail(tests))

\* Lines 415-444: candidates_to_fetch after the loop over ps.
RECURSIVE SelectCandidates(_)
SelectCandidates(ps) ==
    IF ps = <<>> THEN <<>>
    ELSE AppendsFor(Head(ps), SelectionTests(Head(ps))) \o SelectCandidates(Tail(ps))

CandInit ==
    /\ candPc = "select"
    /\ blobPaths \in UNION {[1..n -> TreePaths] : n \in 1..MaxPaths}
    /\ candidates_to_fetch = <<>>

\* The candidate-selection variables while another phase is modelled.
CandIdle == candPc = "select" /\ blobPaths = <<>> /\ candidates_to_fetch = <<>>

\* detect_for_repo, lines 415-444.
CollectCandidates ==
    /\ candPc = "select"
    /\ candidates_to_fetch' = SelectCandidates(blobPaths)
    /\ candPc' = "done"
    /\ UNCHANGED blobPaths

----------------------------------------------------------------------------
(* The specifications, one per phase *)

InitDiscovery == DiscInit /\ SpliceIdle /\ GitIdle /\ MainIdle /\ DsIdle /\ ScanIdle /\ CandIdle

DiscNext ==
    \/ BeginListing /\ UNCHANGED <<spliceVars, gitVars, mainVars, dsVars, scanVars, candVars>>
    \/ RequestPage /\ UNCHANGED <<spliceVars, gitVars, mainVars, dsVars, scanVars, candVars>>
    \/ RecordItems /\ UNCHANGED <<spliceVars, gitVars, mainVars, dsVars, scanVars, candVars>>
    \/ RequestPublicPage /\ UNCHANGED <<spliceVars, gitVars, mainVars, dsVars, scanVars, candVars>>
    \/ RecordPublicItems /\ UNCHANGED <<spliceVars, gitVars, mainVars, dsVars, scanVars, candVars>>
    \/ EnterLoop /\ UNCHANGED <<spliceVars, gitVars, mainVars, dsVars, scanVars, candVars>>
    \/ get_repo_default_branch /\ UNCHANGED <<spliceVars, gitVars, mainVars, dsVars, scanVars, candVars>>
    \/ get_tree /\ UNCHANGED <<spliceVars, gitVars, mainVars, dsVars, scanVars, candVars>>
    \/ get_languages /\ UNCHANGED <<spliceVars, gitVars, mainVars, dsVars, scanVars, candVars>>
    \/ get_file_content /\ UNCHANGED <<spliceVars, gitVars, mainVars, dsVars, scanVars, candVars>>
    \/ NextRepo /\ UNCHANGED <<spliceVars, gitVars, mainVars, dsVars, scanVars, candVars>>

SpecDiscovery == InitDiscovery /\ [][DiscNext]_vars

InitSplice == SpliceInit /\ DiscIdle /\ GitIdle /\ MainIdle /\ DsIdle /\ ScanIdle /\ CandIdle

SpliceNext == SplicePass /\ UNCHANGED <<discVars, gitVars, mainVars, dsVars, scanVars, candVars>>

SpecSplice == InitSplice /\ [][SpliceNext]_vars

InitGit ==
    /\ TOKENS \in {<<>>, <<"t1">>, <<"t1", "t2">>}
    /\ DiscRestIdle /\ SpliceIdle /\ GitInit /\ MainIdle /\ DsIdle /\ ScanIdle /\ CandIdle

GitNext ==
    \/ GitConfigName /\ UNCHANGED <<discVars, spliceVars, mainVars, dsVars, scanVars, candVars>>
    \/ GitConfigEmail /\ UNCHANGED <<discVars, spliceVars, mainVars, dsVars, scanVars, candVars>>
    \/ GitAdd /\ UNCHANGED <<discVars, spliceVars, mainVars, dsVars, scanVars, candVars>>
    \/ GitStatus /\ UNCHANGED <<discVars, spliceVars, mainVars, dsVars, scanVars, candVars>>
    \/ GitCommit /\ UNCHANGED <<discVars, spliceVars, mainVars, dsVars, scanVars, candVars>>
    \/ GitPush /\ UNCHANGED <<discVars, spliceVars, mainVars, dsVars, scanVars, candVars>>

SpecGit == InitGit /\ [][GitNext]_vars

InitMain ==
    /\ sortedRepos \in {Sorted(set) : set \in
          {x \in SUBSET RepoNames : x # {} /\ Cardinality(x) <= MaxLoopRepos}}
    /\ callIdx = 1
    /\ TOKENS = <<>>
    /\ ListingIdle /\ SpliceIdle /\ GitIdle /\ MainInit /\ DsIdle /\ ScanIdle /\ CandIdle

MainNext ==
    \/ DetectRepo /\ UNCHANGED <<listingVars, spliceVars, gitVars, dsVars, scanVars, candVars>>
    \/ AddToCategories /\ UNCHANGED <<listingVars, spliceVars, gitVars, dsVars, scanVars, candVars>>
    \/ Render /\ UNCHANGED <<listingVars, spliceVars, gitVars, dsVars, scanVars, candVars>>

SpecMain == InitMain /\ [][MainNext]_vars

InitDatasci == DiscIdle /\ SpliceIdle /\ GitIdle /\ MainIdle /\ DsInit /\ ScanIdle /\ CandIdle

DatasciNext ==
    ScanDatasci /\ UNCHANGED <<discVars, spliceVars, gitVars, mainVars, scanVars, candVars>>

SpecDatasci == InitDatasci /\ [][DatasciNext]_vars

InitScan == DiscIdle /\ SpliceIdle /\ GitIdle /\ MainIdle /\ DsIdle /\ ScanInit /\ CandIdle

ScanNext ==
    ScanKeywords /\ UNCHANGED <<discVars, spliceVars, gitVars, mainVars, dsVars, candVars>>

SpecScan == InitScan /\ [][ScanNext]_vars

InitCandidates ==
    DiscIdle /\ SpliceIdle /\ GitIdle /\ MainIdle /\ DsIdle /\ ScanIdle /\ CandInit

CandidatesNext ==
    CollectCandidates
        /\ UNCHANGED <<discVars, spliceVars, gitVars, mainVars, dsVars, scanVars>>

SpecCandidates == InitCandidates /\ [][CandidatesNext]_vars

\* One run of the script from the README splice on: the splice of lines
\* 733-747, then the commit & push of lines 752-781.
MaxRunChunks == 3   \* chunks of the README.md the run starts with

InitRun ==
    /\ TOKENS \in {<<>>, <<"t1">>}
    /\ readmeExists \in BOOLEAN
    /\ readme \in (IF readmeExists THEN DocsOf(MaxRunChunks) ELSE {<<>>})
    /\ passes = <<>>
    /\ DiscRestIdle /\ GitInit /\ MainIdle /\ DsIdle /\ ScanIdle /\ CandIdle

\* The splice; a ValueError raised by it is not caught, and the process ends
\* with the traceback and status 1.
RunSplice ==
    /\ passes = <<>>
    /\ SplicePass
    /\ IF passes'[1].raised
       THEN /\ gitPc' = "exited"
            /\ exitStatus' = 1
            /\ UNCHANGED <<readmeChanged, otherDirty, GITHUB_TOKEN, statusOut, gitLog>>
       ELSE UNCHANGED gitVars

\* The commit & push code runs after a splice that did not raise.
SpliceDone == Len(passes) = 1 /\ ~passes[1].raised

RunNext ==
    \/ RunSplice /\ UNCHANGED <<discVars, mainVars, dsVars, scanVars, candVars>>
    \/ SpliceDone /\ GitConfigName
          /\ UNCHANGED <<discVars, spliceVars, mainVars, dsVars, scanVars, candVars>>
    \/ SpliceDone /\ GitConfigEmail
          /\ UNCHANGED <<discVars, spliceVars, mainVars, dsVars, scanVars, candVars>>
    \/ SpliceDone /\ GitAdd
          /\ UNCHANGED <<discVars, spliceVars, mainVars, dsVars, scanVars, candVars>>
    \/ SpliceDone /\ GitStatus
          /\ UNCHANGED <<discVars, spliceVars, mainVars, dsVars, scanVars, candVars>>
    \/ SpliceDone /\ GitCommit
          /\ UNCHANGED <<discVars, spliceVars, mainVars, dsVars, scanVars, candVars>>
    \/ SpliceDone /\ GitPush
          /\ UNCHANGED <<discVars, spliceVars, mainVars, dsVars, scanVars, candVars>>

SpecRun == InitRun /\ [][RunNext]_vars

----------------------------------------------------------------------------
(* Properties of repository discovery *)

\* The earliest token, in TOKENS order, whose pages returned repository r.
FirstLister(r) == TOKENS[Min({i \in 1..Len(TOKENS) : r \in listed[i]})]

ListedSomewhere == UNION {listed[i] : i \in 1..Len(TOKENS)}

C1_Ownership ==
    /\ TOKENS # <<>> =>
         \A r \in DOMAIN repo_token_map :
             r \in ListedSomewhere /\ repo_token_map[r] = FirstLister(r)
    /\ (TOKENS # <<>> /\ pc \notin {"start", "paging", "items", "raised"}) =>
         DOMAIN repo_token_map = ListedSomewhere
    /\ (TOKENS # <<>> /\ lastCall # <<>>) =>
         lastCall.token = FirstLister(lastCall.repo)

C1_NoOverwrite ==
    \A r \in DOMAIN repo_token_map :
        r \in DOMAIN repo_token_map' /\ repo_token_map'[r] = repo_token_map[r]

\* C1: after list_all_repos every discovered repository is mapped to the
\* earliest token in TOKENS whose listing contained it, an entry once set is
\* never overwritten, and every per-repository request (default branch, tree,
\* languages, file content) is sent with exactly that token.
C1_CredentialOwnership == [](C1_Ownership) /\ [][C1_NoOverwrite]_vars

\* Two different tokens both listed a repository, and the file content of that
\* repository has been requested.
C1_Witness ==
    /\ Len(TOKENS) = 2 /\ TOKENS[1] # TOKENS[2]
    /\ lastCall # <<>>
    /\ lastCall.kind = "file_content"
    /\ lastCall.repo \in listed[1] \cap listed[2]

\* C10: a failed page request stops the paging of that token only:
\* list_all_repos does not end by an exception, every token of the list is
\* listed, and the repositories of all pages that were returned are kept.
C10_DiscoveryFailureIsolation ==
    failedAt # {} =>
        /\ pc # "raised"
        /\ pc \notin {"start", "paging", "items"} =>
              /\ tokIdx = Len(TOKENS)
              /\ repo_set = ListedSomewhere

----------------------------------------------------------------------------
(* Properties of the README splice *)

StartsIn(text) == {i \in 1..Len(text) : OccursAt(START, text, i)}

\* The positions of the end markers that follow the first start marker.
EndsAfterStart(text) ==
    {j \in (Min(StartsIn(text)) + Len(START))..Len(text) : OccursAt(END, text, j)}

\* The document holds the start marker followed later by the end marker.
HasMarkedRegion(text) == StartsIn(text) # {} /\ EndsAfterStart(text) # {}

TextBeforeStart(text) == SubSeq(text, 1, Min(StartsIn(text)) - 1)

TextAfterEnd(text) ==
    SubSeq(text, Min(EndsAfterStart(text)) + Len(END), Len(text))

\* The text between the start marker and the end marker that follows it.
Region(text) ==
    IF HasMarkedRegion(text)
    THEN SubSeq(text, Min(StartsIn(text)) + Len(START),
                Min(EndsAfterStart(text)) - 1)
    ELSE <<"no region">>

\* C2: for a document that holds the start marker followed later by the end
\* marker, the rewrite keeps the text before the start marker and the text
\* after the end marker, and puts the new section between the two markers in
\* place of what was there.
C2_DocumentSplice ==
    \A k \in 1..Len(passes) :
        LET p == passes[k] IN
        (p.existed /\ HasMarkedRegion(p.pre)) =>
            /\ ~p.raised
            /\ p.post = TextBeforeStart(p.pre) \o START \o NL \o p.section
                            \o NL \o END \o TextAfterEnd(p.pre)

\* A pass over a document with text before the start marker, an old region
\* between the markers and text after the end marker.
C2_Witness ==
    \E k \in 1..Len(passes) :
        LET p == passes[k] IN
        /\ p.existed /\ HasMarkedRegion(p.pre)
        /\ TextBeforeStart(p.pre) # <<>>
        /\ TextAfterEnd(p.pre) # <<>>
        /\ Region(p.pre) = <<"x">>
        /\ readme = p.post

\* C3: whatever the initial document (absent, without markers, with one marker,
\* with both), a second pass that renders the same section leaves between the
\* markers exactly what the first pass left there.
C3_Idempotence ==
    \A k \in 2..Len(passes) :
        passes[k].section = passes[k - 1].section =>
            Region(passes[k].post) = Region(passes[k - 1].post)

----------------------------------------------------------------------------
(* Properties of the commit & push step *)

Executed(cmd) == \E i \in 1..Len(gitLog) : gitLog[i] = cmd

ExecutedBefore(first, second) ==
    \A i \in 1..Len(gitLog) :
        gitLog[i] = second => \E j \in 1..(i - 1) : gitLog[j] = first

\* C4: the change check runs before any commit; when the check has run and the
\* written document is unchanged from the committed one, neither git commit
\* nor git push is executed and the process exits with status 0; a push is
\* only executed after a commit of the same run.
C4_ChangeCheckGatesCommit ==
    /\ ExecutedBefore("status", "commit")
    /\ ExecutedBefore("commit", "push")
    /\ (~readmeChanged /\ statusOut # "unset") =>
          /\ ~Executed("commit")
          /\ ~Executed("push")
          /\ exitStatus \in {-1, 0}

\* A git command of the try block failed: the except clause ran.
GitFailed == Executed("diag status")

\* C13: the process exits with a non-zero status exactly when one of the git
\* commands failed; without a failure, when nothing changed in the working
\* tree, and when a change was committed but neither a token nor GITHUB_TOKEN
\* is available, it exits with status 0 and no push is executed.
C13_ExitStatus ==
    /\ gitPc = "exited" <=> exitStatus # -1
    /\ gitPc = "exited" => (exitStatus # 0 <=> GitFailed)
    /\ (~readmeChanged /\ ~otherDirty) =>
          /\ ~Executed("push")
          /\ (gitPc = "exited" /\ ~GitFailed) => exitStatus = 0
    /\ (Executed("commit") /\ ~GitFailed /\ TOKENS = <<>> /\ GITHUB_TOKEN = "") =>
          /\ gitPc = "exited"
          /\ exitStatus = 0
          /\ ~Executed("push")

\* The document changed and was committed, no credential is available, and the
\* process has exited.
C13_Witness ==
    /\ gitPc = "exited"
    /\ readmeChanged
    /\ Executed("commit")
    /\ ~GitFailed
    /\ TOKENS = <<>> /\ GITHUB_TOKEN = ""

\* C15: when the existing document holds both markers but no end marker after
\* the first start marker, the splice raises before the file is opened for
\* writing: the document on disk is the one the run found, no git command is
\* executed, and the process has ended.
C15_SpliceFailsBeforeWrite ==
    \A k \in 1..Len(passes) :
        LET p == passes[k] IN
        (/\ p.existed
         /\ Contains(p.pre, START) /\ Contains(p.pre, END)
         /\ ~HasMarkedRegion(p.pre))
        => /\ p.raised
           /\ readmeExists /\ readme = p.pre
           /\ ~Executed("commit") /\ ~Executed("push")
           /\ gitLog = <<>>
           /\ gitPc = "exited" /\ exitStatus = 1

\* The run found a document with the end marker before the start marker and
\* none after it, and the splice has been attempted.
C15_Witness ==
    /\ Len(passes) = 1
    /\ passes[1].existed
    /\ passes[1].pre = END \o <<"x">> \o START
    /\ passes[1].raised
    /\ gitPc = "exited"

----------------------------------------------------------------------------
(* Properties of the aggregation and the rendering *)

Excluded == PACKAGE_MANAGERS \cup FORBIDDEN_SKILLS

\* The names a returned detection holds under a key of aggregate.
DetNames(det, key) ==
    IF key = "languages" THEN Range(det.languages) ELSE det[key]

AllDetNames ==
    UNION {DetNames(det, key) : det \in DetResults, key \in Range(AggregateKeys)}

\* The number of repositories whose detection returned with name under key.
ReturnedWith(key, name) ==
    Cardinality({i \in 1..Len(outcomes) :
        ~outcomes[i].raised /\ name \in DetNames(outcomes[i].det, key)})

\* C5: whatever the detections, no name of PACKAGE_MANAGERS or of
\* FORBIDDEN_SKILLS is a badge of any category of the rendered section, nor a
\* key of any counter of category_map.
C5_ExclusionInvariant ==
    /\ \A cat \in DOMAIN category_map :
           Names(category_map[cat]) \cap Excluded = {}
    /\ \A i \in 1..Len(sections) :
           Range(sections[i].badges) \cap Excluded = {}

\* The section is rendered, it has badges, and the detections held a forbidden
\* name and a package-manager name.
C5_Witness ==
    /\ mainPc = "rendered"
    /\ sections # <<>>
    /\ \E i, j \in 1..Len(outcomes) :
          /\ ~outcomes[i].raised /\ ~outcomes[j].raised
          /\ "Shell" \in Range(outcomes[i].det.languages)
          /\ "pip" \in Range(outcomes[j].det.languages)

\* C9: a repository whose detection raises is skipped: the loop goes through
\* every repository of the list, the counters are the aggregation over exactly
\* the repositories whose detection returned, and the run goes on to the
\* rendering.
C9_FailureIsolation ==
    /\ mainPc \in {"loop", "render", "rendered"}
    /\ mainPc = "loop" => Len(outcomes) = callIdx - 1
    /\ mainPc \in {"render", "rendered"} =>
          /\ Len(outcomes) = Len(sortedRepos)
          /\ \A key \in Range(AggregateKeys) : \A name \in AllDetNames :
                 CountOf(aggregate[key], name) = ReturnedWith(key, name)
          /\ \A key \in DOMAIN aggregate : Names(aggregate[key]) \subseteq AllDetNames
          /\ aggregate["misc"] = <<>>

\* The section is rendered after a run in which the detection of one repository
\* raised and the detection of a later repository returned skills.
C9_Witness ==
    /\ mainPc = "rendered"
    /\ sections # <<>>
    /\ \E i, j \in 1..Len(outcomes) :
          /\ i < j
          /\ outcomes[i].raised
          /\ ~outcomes[j].raised
          /\ outcomes[j].det.languages # <<>>


\* The key of aggregate a category of category_map is filled from.
KeyOf(cat) == CHOOSE key \in Range(AggregateKeys) : CategoryOf(key) = cat

\* The position of name in a counter: its rank in first-seen order.
SeenAt(counter, name) == CHOOSE i \in 1..Len(counter) : counter[i].name = name

\* The badges of every rendered category are in order of non-increasing count
\* in the aggregate counter, ties in the order the names were first seen.
OrderedByCount ==
    \A s \in 1..Len(sections) :
        LET counter == aggregate[KeyOf(sections[s].category)]
            badges == sections[s].badges
        IN  \A i, j \in 1..Len(badges) :
                i < j =>
                    \/ CountOf(counter, badges[i]) > CountOf(counter, badges[j])
                    \/ /\ CountOf(counter, badges[i]) = CountOf(counter, badges[j])
                       /\ SeenAt(counter, badges[i]) < SeenAt(counter, badges[j])

\* The aggregate counters a run over the detection results outs can end with.
RECURSIVE AggregatesOver(_)
AggregatesOver(outs) ==
    IF outs = <<>> THEN {EmptyCounters(Range(AggregateKeys) \cup {"misc"})}
    ELSE LET before == AggregatesOver(SubSeq(outs, 1, Len(outs) - 1))
             last == outs[Len(outs)]
         IN  IF last.raised THEN before
             ELSE {Aggregate(agg, visit) : agg \in before, visit \in Visits(last.det)}

\* The sections a run over the detection results outs can render.
SectionsOver(outs) ==
    {RenderSections(
        AddAllSkills(EmptyCounters(Range(order_of_categories)), agg, AggregateKeys),
        order_of_categories) : agg \in AggregatesOver(outs)}

\* C11: the badges of every rendered category are in order of non-increasing
\* repository count, ties in first-seen order, and every run over the same
\* sequence of detection results renders the sections this run rendered.
C11_DisplayOrder ==
    mainPc = "rendered" =>
        /\ OrderedByCount
        /\ \A other \in SectionsOver(outcomes) : other = sections

\* C12: after the aggregation no skill name is in the counter of more than one
\* category of category_map.
C12_CategoryDisjointness ==
    \A c1, c2 \in DOMAIN category_map :
        c1 # c2 => Names(category_map[c1]) \cap Names(category_map[c2]) = {}

----------------------------------------------------------------------------
(* Properties of the data-science detection *)

IsImportLine(line) == FromImportAt(line) # 0 \/ IsPlainImport(line)

\* What an import statement means in Python: the library (first component of
\* the module, as written), the name it binds, and the names it mentions.
Bindings(line) ==
    IF FromImportAt(line) # 0
    THEN LET k == FromImportAt(line)
             symbols == SplitCommas(SubSeq(line, k + 1, Len(line)))
         IN  {[kind |-> "from", lib |-> line[2],
               bound |-> SplitAs(symbols[i])[Len(SplitAs(symbols[i]))][1],
               names |-> {SplitAs(symbols[i])[j][1] :
                             j \in 1..Len(SplitAs(symbols[i]))}] :
                  i \in 1..Len(symbols)}
    ELSE IF IsPlainImport(line)
    THEN LET parts == SplitCommas(SubSeq(line, 2, Len(line)))
         IN  {[kind |-> "import", lib |-> SplitAs(parts[i])[1][1],
               bound |-> SplitAs(parts[i])[Len(SplitAs(parts[i]))][1],
               names |-> {SplitAs(parts[i])[1][1],
                          SplitAs(parts[i])[Len(SplitAs(parts[i]))][1]}] :
                  i \in 1..Len(parts)}
    ELSE {}

PyFiles == {i \in 1..Len(repoFiles) : IsPy(repoFiles[i]) /\ HasText(repoFiles[i])}

DsBindingsOf(i) ==
    UNION {Bindings(repoFiles[i].text[j]) : j \in 1..Len(repoFiles[i].text)}

AllDsBindings ==
    {b \in UNION {DsBindingsOf(i) : i \in PyFiles} : b.lib \in DOMAIN DS_LIB_KEYWORDS}

\* One of the names of the binding occurs, in any letter case, in a line of a
\* .py file that is not an import statement.
Referenced(b) ==
    \E i \in PyFiles : \E j \in 1..Len(repoFiles[i].text) :
        LET line == repoFiles[i].text[j] IN
        /\ ~IsImportLine(line)
        /\ \E n \in 1..Len(line) : \E name \in b.names : Lower(line[n]) = Lower(name)

\* A line accesses an attribute of the bound module or alias, or calls the
\* bound symbol.
AccessesOrCalls(b, line) ==
    \E n \in 1..(Len(line) - 1) :
        /\ line[n] = b.bound
        /\ line[n + 1] = (IF b.kind = "import" THEN "." ELSE "(")

\* C6: a data-science library that the .py files import but whose imported
\* alias or symbol is never referenced outside the import statements does not
\* get its label into detected["datasci"]; a repository without .py files gets
\* an empty detected["datasci"].
C6_UnusedImportNotDetected ==
    dsPc = "done" =>
        /\ \A label \in {DS_LIB_KEYWORDS[k] : k \in DOMAIN DS_LIB_KEYWORDS} :
               (/\ \E b \in AllDsBindings : DS_LIB_KEYWORDS[b.lib] = label
                /\ \A b \in AllDsBindings :
                       DS_LIB_KEYWORDS[b.lib] = label => ~Referenced(b))
               => label \notin datasci
        /\ (\A i \in 1..Len(repoFiles) : ~IsPy(repoFiles[i])) => datasci = {}

\* C7: a .py file that imports a data-science library (by module, by alias or
\* by a from-imported symbol of any letter case) and in a later line accesses
\* an attribute of the module or alias, or calls the symbol, gets the
\* library's label into detected["datasci"].
C7_UsedImportDetected ==
    dsPc = "done" =>
        \A i \in PyFiles : \A j \in 1..Len(repoFiles[i].text) :
            \A b \in Bindings(repoFiles[i].text[j]) :
                (/\ b.lib \in DOMAIN DS_LIB_KEYWORDS
                 /\ \E k \in (j + 1)..Len(repoFiles[i].text) :
                        AccessesOrCalls(b, repoFiles[i].text[k]))
                => DS_LIB_KEYWORDS[b.lib] \in datasci


----------------------------------------------------------------------------
(* Properties of the keyword scans *)

WordChars ==
    {"a", "b", "c", "d", "e", "f", "g", "h", "i", "j", "k", "l", "m", "n", "o",
     "p", "q", "r", "s", "t", "u", "v", "w", "x", "y", "z", "0", "1", "2", "3",
     "4", "5", "6", "7", "8", "9", "_"}

\* The keyword occurs in the buffer delimited by non-word characters or the
\* boundaries of the buffer.
Standalone(k, buf) ==
    \E i \in 1..Len(buf) :
        /\ OccursAt(k, buf, i)
        /\ i = 1 \/ buf[i - 1] \notin WordChars
        /\ i + Len(k) > Len(buf) \/ buf[i + Len(k)] \notin WordChars

KeywordTables ==
    [dbs |-> DB_KEYWORDS, frontend |-> FRONTEND_KEYWORDS,
     services |-> SERVICE_KEYWORDS, devops |-> DEVOPS_KEYWORDS]

\* C8: in every keyword table, a keyword that occurs in the scanning buffer as
\* a standalone token yields its label, and a keyword that occurs only inside
\* a longer token yields none (unless a keyword of the same label stands
\* alone in the buffer).
C8_WholeWordMatching ==
    scanPc = "done" =>
        LET buf == content_blob(fileContents) IN
        \A t \in DOMAIN KeywordTables : \A e \in KeywordTables[t] :
            /\ Standalone(e.k, buf) => e.label \in found[t]
            /\ (/\ Contains(buf, e.k)
                /\ \A o \in KeywordTables[t] :
                       o.label = e.label => ~Standalone(o.k, buf))
               => e.label \notin found[t]


----------------------------------------------------------------------------
(* Properties of the candidate selection *)

\* The manifest filenames of the specification.
SpecManifests ==
    {b \in Basenames :
        b \notin {<<"D", "o", "c", "k", "e", "r", "f", "i", "l", "e", ".", "d", "e", "v">>,
                  <<"n", "o", "t", "e", "s", ".", "t", "x", "t">>}}

\* C14: every blob path whose basename is exactly a manifest filename
\* (package.json, requirements.txt, pyproject.toml, Pipfile, poetry.lock,
\* go.mod, pom.xml, build.gradle, Gemfile, composer.json, Cargo.toml,
\* environment.yml) is in candidates_to_fetch after the selection loop.
C14_ManifestsSelected ==
    candPc = "done" =>
        \A i \in 1..Len(blobPaths) :
            Basename(blobPaths[i]) \in SpecManifests
                => blobPaths[i] \in Range(candidates_to_fetch)

============================================================================
